---- MODULE Spec2Model ----
(***************************************************************************)
(* Model of the matcher dispatcher of snitch-detective (src/detective.rs): *)
(* Detective::matches, validate_match_request, parse_field and             *)
(* parse_field_value.  The validators matches dispatches to live in        *)
(* matcher_numeric, matcher_core and matcher_pii; they are modelled from   *)
(* the prose specification (sections 4.3 - 4.5).                           *)
(*                                                                         *)
(* Strings that are converted (numeric literals, operands, field text) are *)
(* sequences of one-character strings, so parsing is computed.  Paths and  *)
(* match-type names are only compared, so they are plain strings.          *)
(***************************************************************************)
EXTENDS Integers, Sequences, FiniteSets, TLC

VARIABLES
    request,   \* request[c]: the MatchRequest call c was handed (&MatchRequest)
    pc,        \* pc[c]: position of call c inside Detective::matches
    arm,       \* arm[c]: the arm of the dispatch match call c took ("none" before)
    invoked,   \* invoked[c]: the validators call c has invoked, in order
    result     \* result[c]: the Result<bool, CustomError> call c returned

vars == <<request, pc, arm, invoked, result>>

\* Number of concurrent calls of matches in the concurrent specification.
NumCalls == 2

--------------------------------------------------------------------------
(* Result<_, CustomError> *)

Ok(v) == [ok |-> TRUE, val |-> v, kind |-> "", msg |-> ""]

Err(kind, msg) == [ok |-> FALSE, val |-> FALSE, kind |-> kind, msg |-> msg]

\* The `?` operator: an Err is returned as it is.
Propagate(r) == Err(r.kind, r.msg)

NoResult == Err("", "")

--------------------------------------------------------------------------
(* protos::matcher::MatchType *)

NumericTypes ==
    { "MATCH_TYPE_NUMERIC_EQUAL_TO", "MATCH_TYPE_NUMERIC_GREATER_EQUAL",
      "MATCH_TYPE_NUMERIC_GREATER_THAN", "MATCH_TYPE_NUMERIC_LESS_EQUAL",
      "MATCH_TYPE_NUMERIC_LESS_THAN" }

CoreTypes ==
    { "MATCH_TYPE_STRING_EQUAL", "MATCH_TYPE_STRING_CONTAINS_ANY",
      "MATCH_TYPE_STRING_CONTAINS_ALL", "MATCH_TYPE_IPV4_ADDRESS",
      "MATCH_TYPE_IPV6_ADDRESS", "MATCH_TYPE_REGEX",
      "MATCH_TYPE_TIMESTAMP_RFC3339", "MATCH_TYPE_TIMESTAMP_UNIX_NANO",
      "MATCH_TYPE_TIMESTAMP_UNIX", "MATCH_TYPE_BOOLEAN_FALSE",
      "MATCH_TYPE_BOOLEAN_TRUE", "MATCH_TYPE_IS_EMPTY", "MATCH_TYPE_HAS_FIELD",
      "MATCH_TYPE_IS_TYPE", "MATCH_TYPE_UUID", "MATCH_TYPE_MAC_ADDRESS" }

PiiTypes ==
    { "MATCH_TYPE_PII_ANY", "MATCH_TYPE_PII_CREDIT_CARD", "MATCH_TYPE_PII_SSN",
      "MATCH_TYPE_PII_EMAIL", "MATCH_TYPE_PII_PHONE",
      "MATCH_TYPE_PII_DRIVER_LICENSE", "MATCH_TYPE_PII_PASSPORT_ID",
      "MATCH_TYPE_PII_VIN_NUMBER", "MATCH_TYPE_PII_SERIAL_NUMBER",
      "MATCH_TYPE_PII_LOGIN", "MATCH_TYPE_PII_TAXPAYER_ID",
      "MATCH_TYPE_PII_ADDRESS", "MATCH_TYPE_PII_SIGNATURE",
      "MATCH_TYPE_PII_GEOLOCATION", "MATCH_TYPE_PII_EDUCATION",
      "MATCH_TYPE_PII_FINANCIAL", "MATCH_TYPE_PII_HEALTH" }

MatchType == NumericTypes \cup CoreTypes \cup PiiTypes \cup {"MATCH_TYPE_UNKNOWN"}

\* A wire value of the type_ field that is no variant of MatchType.
UnrecognizedType == "9999"

\* EnumOrUnknown::enum_value: Ok(variant) or Err(raw wire value).
enum_value(type_) ==
    IF type_ \in MatchType
    THEN [ok |-> TRUE, value |-> type_]
    ELSE [ok |-> FALSE, value |-> type_]

--------------------------------------------------------------------------
(* The data blob and ajson *)

\* request.data is one of four byte buffers: the empty buffer, bytes that
\* are no UTF-8, UTF-8 text ajson cannot parse, and the test document.
DataBuffers == {"empty", "invalid_utf8", "malformed", "document"}

\* ajson::Value, tagged.  raw is the text of a string or the literal of a
\* number; size is the element count of an array or object.
Node(tag, raw, size) == [tag |-> tag, raw |-> raw, size |-> size]

DocumentPaths ==
    { "number_int", "number_float", "number_padded", "string", "empty_string",
      "null", "boolean_t", "boolean_f", "empty_array", "array",
      "empty_object", "object", "ipv4" }

\* The document the tests match against: path -> node.
Document(path) ==
    CASE path = "number_int"    -> Node("Number", <<"1","0","0">>, 0)
      [] path = "number_float"  -> Node("Number", <<"1","0","0",".","1">>, 0)
      [] path = "number_padded" -> Node("Number", <<"1","0","0",".","1","0">>, 0)
      [] path = "string"        -> Node("String", <<"h","e","l","l","o">>, 0)
      [] path = "empty_string"  -> Node("String", <<>>, 0)
      [] path = "null"          -> Node("Null", <<>>, 0)
      [] path = "boolean_t"     -> Node("Boolean", <<"t","r","u","e">>, 0)
      [] path = "boolean_f"     -> Node("Boolean", <<"f","a","l","s","e">>, 0)
      [] path = "empty_array"   -> Node("Array", <<>>, 0)
      [] path = "array"         -> Node("Array", <<>>, 2)
      [] path = "empty_object"  -> Node("Object", <<>>, 0)
      [] path = "object"        -> Node("Object", <<>>, 1)
      [] path = "ipv4"          -> Node("String", <<"1",".","1",".","1",".","1">>, 0)

\* str::from_utf8(data)
from_utf8(data) == data # "invalid_utf8"

\* ajson::get(data_as_str, path): Ok(Some(value)), Ok(None) or Err(e).
ajson_get(data, path) ==
    IF data = "malformed" THEN [tag |-> "err", value |-> Node("Null", <<>>, 0)]
    ELSE IF data = "document" /\ path \in DocumentPaths
    THEN [tag |-> "some", value |-> Document(path)]
    ELSE [tag |-> "none", value |-> Node("Null", <<>>, 0)]

--------------------------------------------------------------------------
(* Numbers: the decimal literal s denotes m / 10^e, kept exactly *)

DigitChars == {"0","1","2","3","4","5","6","7","8","9"}

DigitValue(ch) ==
    CASE ch = "0" -> 0 [] ch = "1" -> 1 [] ch = "2" -> 2 [] ch = "3" -> 3
      [] ch = "4" -> 4 [] ch = "5" -> 5 [] ch = "6" -> 6 [] ch = "7" -> 7
      [] ch = "8" -> 8 [] ch = "9" -> 9

RECURSIVE Pow10(_)
Pow10(n) == IF n = 0 THEN 1 ELSE 10 * Pow10(n - 1)

RECURSIVE ToNat(_)
ToNat(s) ==
    IF s = <<>> THEN 0
    ELSE 10 * ToNat(SubSeq(s, 1, Len(s) - 1)) + DigitValue(s[Len(s)])

AllDigits(s) == \A i \in 1..Len(s) : s[i] \in DigitChars

\* Index of the first "." of s, 0 when there is none.
DotIndex(s) ==
    IF \E i \in 1..Len(s) : s[i] = "."
    THEN CHOOSE i \in 1..Len(s) : s[i] = "." /\ \A j \in 1..(i - 1) : s[j] # "."
    ELSE 0

\* Parsing a decimal literal as a number: optional sign, digits, optional
\* fraction, at least one digit.
parse_number(s) ==
    LET neg  == Len(s) > 0 /\ s[1] = "-"
        body == IF neg THEN Tail(s) ELSE s
        d    == DotIndex(body)
        ip   == IF d = 0 THEN body ELSE SubSeq(body, 1, d - 1)
        fp   == IF d = 0 THEN <<>> ELSE SubSeq(body, d + 1, Len(body))
        mag  == ToNat(ip) * Pow10(Len(fp)) + ToNat(fp)
    IN  IF AllDigits(ip) /\ AllDigits(fp) /\ Len(ip) + Len(fp) > 0
        THEN Ok([m |-> IF neg THEN 0 - mag ELSE mag, e |-> Len(fp)])
        ELSE Err("Error", "unable to parse number")

NumEq(a, b) == a.m * Pow10(b.e) = b.m * Pow10(a.e)

NumLt(a, b) == a.m * Pow10(b.e) < b.m * Pow10(a.e)

--------------------------------------------------------------------------
(* Typed field extraction *)

\* FromValue::from_value for the target types f64, String and bool.
from_value(T, value) ==
    CASE T = "f64" ->
            IF value.tag \in {"Number", "String"} /\ parse_number(value.raw).ok
            THEN parse_number(value.raw)
            ELSE Err("Error", "type mismatch")
      [] T = "String" ->
            IF value.tag \in {"String", "Number", "Boolean"}
            THEN Ok(value.raw)
            ELSE Err("Error", "type mismatch")
      [] T = "bool" ->
            IF value.tag = "Boolean"
            THEN Ok(value.raw = <<"t","r","u","e">>)
            ELSE Err("Error", "type mismatch")

parse_field(T, data, path) ==
    IF ~from_utf8(data)
    THEN Err("Error", "unable to convert bytes to string")
    ELSE LET got == ajson_get(data, path)
         IN  CASE got.tag = "some" -> from_value(T, got.value)
               [] got.tag = "none" -> Err("Error", "path not found in data")
               [] got.tag = "err"  -> Err("Error", "error parsing field")

\* parse_field_value with Ok(None) treated as a null node.
parse_field_value_none_is_null(data, path) ==
    IF ~from_utf8(data)
    THEN Err("Error", "unable to convert bytes to string")
    ELSE LET got == ajson_get(data, path)
         IN  CASE got.tag = "some" -> Ok(got.value)
               [] got.tag = "none" -> Ok(Node("Null", <<>>, 0))
               [] got.tag = "err"  -> Err("Error", "error parsing field")

parse_field_value(data, path) ==
    IF ~from_utf8(data)
    THEN Err("Error", "unable to convert bytes to string")
    ELSE LET got == ajson_get(data, path)
         IN  CASE got.tag = "some" -> Ok(got.value)
               [] got.tag = "none" -> Err("Error", "path not found in data")
               [] got.tag = "err"  -> Err("Error", "error parsing field")

--------------------------------------------------------------------------
(* Request validation *)

\* validate_match_request without the check of request.data.
validate_without_data_check(req) ==
    LET ev == enum_value(req.type_)
    IN  IF ev.ok /\ ev.value = "MATCH_TYPE_UNKNOWN"
        THEN Err("MatchError", "unknown match type")
        ELSE IF ~ev.ok
        THEN Err("MatchError", "unexpected match type")
        ELSE IF req.path = ""
        THEN Err("Error", "path cannot be empty")
        ELSE Ok(TRUE)

\* validate_match_request without the check for MATCH_TYPE_UNKNOWN.
validate_without_unknown_check(req) ==
    LET ev == enum_value(req.type_)
    IN  IF ~ev.ok
        THEN Err("MatchError", "unexpected match type")
        ELSE IF req.path = ""
        THEN Err("Error", "path cannot be empty")
        ELSE IF req.data = "empty"
        THEN Err("Error", "data cannot be empty")
        ELSE Ok(TRUE)

validate_match_request(req) ==
    LET ev == enum_value(req.type_)
    IN  IF ev.ok /\ ev.value = "MATCH_TYPE_UNKNOWN"
        THEN Err("MatchError", "unknown match type")
        ELSE IF ~ev.ok
        THEN Err("MatchError", "unexpected match type")
        ELSE IF req.path = ""
        THEN Err("Error", "path cannot be empty")
        ELSE IF req.data = "empty"
        THEN Err("Error", "data cannot be empty")
        ELSE Ok(TRUE)

--------------------------------------------------------------------------
(* The validators (matcher_numeric, matcher_core, matcher_pii) *)

\* The outer negate flag, applied to a successfully computed boolean.
apply_negate(req, b) == Ok(IF req.negate THEN ~b ELSE b)

\* sub occurs in s.
Contains(s, sub) ==
    \E i \in 0..(Len(s) - Len(sub)) : SubSeq(s, i + 1, i + Len(sub)) = sub

\* The operator a numeric match type selects.
Compare(type_, f, v) ==
    CASE type_ = "MATCH_TYPE_NUMERIC_EQUAL_TO"      -> NumEq(f, v)
      [] type_ = "MATCH_TYPE_NUMERIC_GREATER_THAN"  -> NumLt(v, f)
      [] type_ = "MATCH_TYPE_NUMERIC_GREATER_EQUAL" -> ~NumLt(f, v)
      [] type_ = "MATCH_TYPE_NUMERIC_LESS_THAN"     -> NumLt(f, v)
      [] type_ = "MATCH_TYPE_NUMERIC_LESS_EQUAL"    -> ~NumLt(v, f)

\* numeric::common
numeric_common(req) ==
    LET f == parse_field("f64", req.data, req.path)
    IN  IF ~f.ok THEN Propagate(f)
        ELSE IF Len(req.values) # 1
        THEN Err("Error", "numeric match takes exactly one value")
        ELSE LET v == parse_number(req.values[1])
             IN  IF ~v.ok THEN Propagate(v)
                 ELSE apply_negate(req, Compare(req.type_, f.val, v.val))

\* core::boolean(request, expected)
core_boolean(req, expected) ==
    LET f == parse_field("bool", req.data, req.path)
    IN  IF ~f.ok THEN Propagate(f) ELSE apply_negate(req, f.val = expected)

\* core::is_empty: an absent field counts as empty.
core_is_empty(req) ==
    LET f == parse_field_value(req.data, req.path)
    IN  IF ~f.ok
        THEN IF f.msg = "path not found in data"
             THEN apply_negate(req, TRUE)
             ELSE Propagate(f)
        ELSE apply_negate(req,
                 CASE f.val.tag = "Null"   -> TRUE
                   [] f.val.tag = "String" -> f.val.raw = <<>>
                   [] f.val.tag \in {"Array", "Object"} -> f.val.size = 0
                   [] OTHER -> FALSE)

\* core::has_field: not-found is the answer false, not an error.
core_has_field(req) ==
    LET f == parse_field_value(req.data, req.path)
    IN  IF f.ok THEN apply_negate(req, TRUE)
        ELSE IF f.msg = "path not found in data"
        THEN apply_negate(req, FALSE)
        ELSE Propagate(f)

\* The type name is_type compares the operand with.
TypeName(tag) ==
    CASE tag = "String"  -> <<"s","t","r","i","n","g">>
      [] tag = "Number"  -> <<"n","u","m","b","e","r">>
      [] tag = "Boolean" -> <<"b","o","o","l">>
      [] tag = "Array"   -> <<"a","r","r","a","y">>
      [] tag = "Object"  -> <<"o","b","j","e","c","t">>
      [] tag = "Null"    -> <<"n","u","l","l">>

\* core::is_type
core_is_type(req) ==
    LET f == parse_field_value(req.data, req.path)
    IN  IF ~f.ok THEN Propagate(f)
        ELSE IF Len(req.values) # 1
        THEN Err("Error", "is_type takes exactly one value")
        ELSE apply_negate(req, TypeName(f.val.tag) = req.values[1])

\* The validators that take operands, and how many they need at least.
NeedsOperands(fn) ==
    fn \in { "core::string_equal_to", "core::string_contains_any",
             "core::string_contains_all", "core::regex" }

\* Field strings the format and PII rules accept, among the strings of the
\* test document.
FormatSamples(fn, type_) ==
    IF fn = "core::ip_address" /\ type_ = "MATCH_TYPE_IPV4_ADDRESS"
    THEN {<<"1",".","1",".","1",".","1">>}
    ELSE {}

\* The rule of a validator that works on the string form of the field.
StringRule(fn, req, field) ==
    CASE fn = "core::string_equal_to" -> field = req.values[1]
      [] fn = "core::string_contains_any" ->
            \E i \in 1..Len(req.values) : Contains(field, req.values[i])
      [] fn = "core::string_contains_all" ->
            \A i \in 1..Len(req.values) : Contains(field, req.values[i])
      [] fn = "core::regex" -> Contains(field, req.values[1])
      [] fn \in {"core::timestamp_unix", "core::timestamp_unix_nano"} ->
            parse_number(field).ok /\ parse_number(field).val.e = 0
      [] OTHER -> field \in FormatSamples(fn, req.type_)

\* The string, format and PII validators: extract the field as a string,
\* then apply the rule.
string_validator(fn, req) ==
    LET f == parse_field("String", req.data, req.path)
    IN  IF ~f.ok THEN Propagate(f)
        ELSE IF NeedsOperands(fn) /\ Len(req.values) = 0
        THEN Err("Error", "missing value")
        ELSE apply_negate(req, StringRule(fn, req, f.val))

\* A call of validator v = [fn, arg] on the request.
call_validator(v, req) ==
    CASE v.fn = "numeric::common" -> numeric_common(req)
      [] v.fn = "core::boolean"   -> core_boolean(req, v.arg)
      [] v.fn = "core::is_empty"  -> core_is_empty(req)
      [] v.fn = "core::has_field" -> core_has_field(req)
      [] v.fn = "core::is_type"   -> core_is_type(req)
      [] OTHER                    -> string_validator(v.fn, req)

--------------------------------------------------------------------------
(* Detective::matches *)

\* The dispatch with NUMERIC_GREATER_EQUAL sent to the string comparison.
match_arm_numeric_slip(type_) ==
    CASE type_ = "MATCH_TYPE_NUMERIC_GREATER_EQUAL" ->
            [fn |-> "core::string_equal_to", arg |-> FALSE]
      [] type_ \in NumericTypes -> [fn |-> "numeric::common", arg |-> FALSE]
      [] type_ = "MATCH_TYPE_STRING_EQUAL" ->
            [fn |-> "core::string_equal_to", arg |-> FALSE]
      [] type_ = "MATCH_TYPE_STRING_CONTAINS_ANY" ->
            [fn |-> "core::string_contains_any", arg |-> FALSE]
      [] type_ = "MATCH_TYPE_STRING_CONTAINS_ALL" ->
            [fn |-> "core::string_contains_all", arg |-> FALSE]
      [] type_ = "MATCH_TYPE_IPV4_ADDRESS" ->
            [fn |-> "core::ip_address", arg |-> FALSE]
      [] type_ = "MATCH_TYPE_IPV6_ADDRESS" ->
            [fn |-> "core::ip_address", arg |-> FALSE]
      [] type_ = "MATCH_TYPE_REGEX" ->
            [fn |-> "core::regex", arg |-> FALSE]
      [] type_ = "MATCH_TYPE_TIMESTAMP_RFC3339" ->
            [fn |-> "core::timestamp_rfc3339", arg |-> FALSE]
      [] type_ = "MATCH_TYPE_TIMESTAMP_UNIX_NANO" ->
            [fn |-> "core::timestamp_unix_nano", arg |-> FALSE]
      [] type_ = "MATCH_TYPE_TIMESTAMP_UNIX" ->
            [fn |-> "core::timestamp_unix", arg |-> FALSE]
      [] type_ = "MATCH_TYPE_BOOLEAN_FALSE" ->
            [fn |-> "core::boolean", arg |-> FALSE]
      [] type_ = "MATCH_TYPE_BOOLEAN_TRUE" ->
            [fn |-> "core::boolean", arg |-> TRUE]
      [] type_ = "MATCH_TYPE_IS_EMPTY" ->
            [fn |-> "core::is_empty", arg |-> FALSE]
      [] type_ = "MATCH_TYPE_HAS_FIELD" ->
            [fn |-> "core::has_field", arg |-> FALSE]
      [] type_ = "MATCH_TYPE_IS_TYPE" ->
            [fn |-> "core::is_type", arg |-> FALSE]
      [] type_ = "MATCH_TYPE_UUID" ->
            [fn |-> "core::uuid", arg |-> FALSE]
      [] type_ = "MATCH_TYPE_MAC_ADDRESS" ->
            [fn |-> "core::mac_address", arg |-> FALSE]
      [] type_ = "MATCH_TYPE_PII_ANY" ->
            [fn |-> "pii::all", arg |-> FALSE]
      [] type_ = "MATCH_TYPE_PII_CREDIT_CARD" ->
            [fn |-> "pii::credit_card", arg |-> FALSE]
      [] type_ = "MATCH_TYPE_PII_SSN" ->
            [fn |-> "pii::ssn", arg |-> FALSE]
      [] type_ = "MATCH_TYPE_PII_EMAIL" ->
            [fn |-> "pii::email", arg |-> FALSE]
      [] type_ = "MATCH_TYPE_PII_PHONE" ->
            [fn |-> "pii::phone", arg |-> FALSE]
      [] type_ = "MATCH_TYPE_PII_DRIVER_LICENSE" ->
            [fn |-> "pii::drivers_license", arg |-> FALSE]
      [] type_ = "MATCH_TYPE_PII_PASSPORT_ID" ->
            [fn |-> "pii::passport_id", arg |-> FALSE]
      [] type_ = "MATCH_TYPE_PII_VIN_NUMBER" ->
            [fn |-> "pii::vin_number", arg |-> FALSE]
      [] type_ = "MATCH_TYPE_PII_SERIAL_NUMBER" ->
            [fn |-> "pii::serial_number", arg |-> FALSE]
      [] type_ = "MATCH_TYPE_PII_LOGIN" ->
            [fn |-> "pii::login", arg |-> FALSE]
      [] type_ = "MATCH_TYPE_PII_TAXPAYER_ID" ->
            [fn |-> "pii::taxpayer_id", arg |-> FALSE]
      [] type_ = "MATCH_TYPE_PII_ADDRESS" ->
            [fn |-> "pii::address", arg |-> FALSE]
      [] type_ = "MATCH_TYPE_PII_SIGNATURE" ->
            [fn |-> "pii::signature", arg |-> FALSE]
      [] type_ = "MATCH_TYPE_PII_GEOLOCATION" ->
            [fn |-> "pii::geolocation", arg |-> FALSE]
      [] type_ = "MATCH_TYPE_PII_EDUCATION" ->
            [fn |-> "pii::education", arg |-> FALSE]
      [] type_ = "MATCH_TYPE_PII_FINANCIAL" ->
            [fn |-> "pii::financial", arg |-> FALSE]
      [] type_ = "MATCH_TYPE_PII_HEALTH" ->
            [fn |-> "pii::health", arg |-> FALSE]
      [] type_ = "MATCH_TYPE_UNKNOWN" -> [fn |-> "unknown", arg |-> FALSE]

\* The dispatch with the is_empty and has_field arms exchanged.
match_arm_swapped(type_) ==
    CASE type_ \in NumericTypes -> [fn |-> "numeric::common", arg |-> FALSE]
      [] type_ = "MATCH_TYPE_STRING_EQUAL" ->
            [fn |-> "core::string_equal_to", arg |-> FALSE]
      [] type_ = "MATCH_TYPE_STRING_CONTAINS_ANY" ->
            [fn |-> "core::string_contains_any", arg |-> FALSE]
      [] type_ = "MATCH_TYPE_STRING_CONTAINS_ALL" ->
            [fn |-> "core::string_contains_all", arg |-> FALSE]
      [] type_ = "MATCH_TYPE_IPV4_ADDRESS" ->
            [fn |-> "core::ip_address", arg |-> FALSE]
      [] type_ = "MATCH_TYPE_IPV6_ADDRESS" ->
            [fn |-> "core::ip_address", arg |-> FALSE]
      [] type_ = "MATCH_TYPE_REGEX" ->
            [fn |-> "core::regex", arg |-> FALSE]
      [] type_ = "MATCH_TYPE_TIMESTAMP_RFC3339" ->
            [fn |-> "core::timestamp_rfc3339", arg |-> FALSE]
      [] type_ = "MATCH_TYPE_TIMESTAMP_UNIX_NANO" ->
            [fn |-> "core::timestamp_unix_nano", arg |-> FALSE]
      [] type_ = "MATCH_TYPE_TIMESTAMP_UNIX" ->
            [fn |-> "core::timestamp_unix", arg |-> FALSE]
      [] type_ = "MATCH_TYPE_BOOLEAN_FALSE" ->
            [fn |-> "core::boolean", arg |-> FALSE]
      [] type_ = "MATCH_TYPE_BOOLEAN_TRUE" ->
            [fn |-> "core::boolean", arg |-> TRUE]
      [] type_ = "MATCH_TYPE_IS_EMPTY" ->
            [fn |-> "core::has_field", arg |-> FALSE]
      [] type_ = "MATCH_TYPE_HAS_FIELD" ->
            [fn |-> "core::is_empty", arg |-> FALSE]
      [] type_ = "MATCH_TYPE_IS_TYPE" ->
            [fn |-> "core::is_type", arg |-> FALSE]
      [] type_ = "MATCH_TYPE_UUID" ->
            [fn |-> "core::uuid", arg |-> FALSE]
      [] type_ = "MATCH_TYPE_MAC_ADDRESS" ->
            [fn |-> "core::mac_address", arg |-> FALSE]
      [] type_ = "MATCH_TYPE_PII_ANY" ->
            [fn |-> "pii::all", arg |-> FALSE]
      [] type_ = "MATCH_TYPE_PII_CREDIT_CARD" ->
            [fn |-> "pii::credit_card", arg |-> FALSE]
      [] type_ = "MATCH_TYPE_PII_SSN" ->
            [fn |-> "pii::ssn", arg |-> FALSE]
      [] type_ = "MATCH_TYPE_PII_EMAIL" ->
            [fn |-> "pii::email", arg |-> FALSE]
      [] type_ = "MATCH_TYPE_PII_PHONE" ->
            [fn |-> "pii::phone", arg |-> FALSE]
      [] type_ = "MATCH_TYPE_PII_DRIVER_LICENSE" ->
            [fn |-> "pii::drivers_license", arg |-> FALSE]
      [] type_ = "MATCH_TYPE_PII_PASSPORT_ID" ->
            [fn |-> "pii::passport_id", arg |-> FALSE]
      [] type_ = "MATCH_TYPE_PII_VIN_NUMBER" ->
            [fn |-> "pii::vin_number", arg |-> FALSE]
      [] type_ = "MATCH_TYPE_PII_SERIAL_NUMBER" ->
            [fn |-> "pii::serial_number", arg |-> FALSE]
      [] type_ = "MATCH_TYPE_PII_LOGIN" ->
            [fn |-> "pii::login", arg |-> FALSE]
      [] type_ = "MATCH_TYPE_PII_TAXPAYER_ID" ->
            [fn |-> "pii::taxpayer_id", arg |-> FALSE]
      [] type_ = "MATCH_TYPE_PII_ADDRESS" ->
            [fn |-> "pii::address", arg |-> FALSE]
      [] type_ = "MATCH_TYPE_PII_SIGNATURE" ->
            [fn |-> "pii::signature", arg |-> FALSE]
      [] type_ = "MATCH_TYPE_PII_GEOLOCATION" ->
            [fn |-> "pii::geolocation", arg |-> FALSE]
      [] type_ = "MATCH_TYPE_PII_EDUCATION" ->
            [fn |-> "pii::education", arg |-> FALSE]
      [] type_ = "MATCH_TYPE_PII_FINANCIAL" ->
            [fn |-> "pii::financial", arg |-> FALSE]
      [] type_ = "MATCH_TYPE_PII_HEALTH" ->
            [fn |-> "pii::health", arg |-> FALSE]
      [] type_ = "MATCH_TYPE_UNKNOWN" -> [fn |-> "unknown", arg |-> FALSE]

\* The dispatch with IS_EMPTY sent to the type check.
match_arm_is_empty_slip(type_) ==
    CASE type_ \in NumericTypes -> [fn |-> "numeric::common", arg |-> FALSE]
      [] type_ = "MATCH_TYPE_STRING_EQUAL" ->
            [fn |-> "core::string_equal_to", arg |-> FALSE]
      [] type_ = "MATCH_TYPE_STRING_CONTAINS_ANY" ->
            [fn |-> "core::string_contains_any", arg |-> FALSE]
      [] type_ = "MATCH_TYPE_STRING_CONTAINS_ALL" ->
            [fn |-> "core::string_contains_all", arg |-> FALSE]
      [] type_ = "MATCH_TYPE_IPV4_ADDRESS" ->
            [fn |-> "core::ip_address", arg |-> FALSE]
      [] type_ = "MATCH_TYPE_IPV6_ADDRESS" ->
            [fn |-> "core::ip_address", arg |-> FALSE]
      [] type_ = "MATCH_TYPE_REGEX" ->
            [fn |-> "core::regex", arg |-> FALSE]
      [] type_ = "MATCH_TYPE_TIMESTAMP_RFC3339" ->
            [fn |-> "core::timestamp_rfc3339", arg |-> FALSE]
      [] type_ = "MATCH_TYPE_TIMESTAMP_UNIX_NANO" ->
            [fn |-> "core::timestamp_unix_nano", arg |-> FALSE]
      [] type_ = "MATCH_TYPE_TIMESTAMP_UNIX" ->
            [fn |-> "core::timestamp_unix", arg |-> FALSE]
      [] type_ = "MATCH_TYPE_BOOLEAN_FALSE" ->
            [fn |-> "core::boolean", arg |-> FALSE]
      [] type_ = "MATCH_TYPE_BOOLEAN_TRUE" ->
            [fn |-> "core::boolean", arg |-> TRUE]
      [] type_ = "MATCH_TYPE_IS_EMPTY" ->
            [fn |-> "core::is_type", arg |-> FALSE]
      [] type_ = "MATCH_TYPE_HAS_FIELD" ->
            [fn |-> "core::has_field", arg |-> FALSE]
      [] type_ = "MATCH_TYPE_IS_TYPE" ->
            [fn |-> "core::is_type", arg |-> FALSE]
      [] type_ = "MATCH_TYPE_UUID" ->
            [fn |-> "core::uuid", arg |-> FALSE]
      [] type_ = "MATCH_TYPE_MAC_ADDRESS" ->
            [fn |-> "core::mac_address", arg |-> FALSE]
      [] type_ = "MATCH_TYPE_PII_ANY" ->
            [fn |-> "pii::all", arg |-> FALSE]
      [] type_ = "MATCH_TYPE_PII_CREDIT_CARD" ->
            [fn |-> "pii::credit_card", arg |-> FALSE]
      [] type_ = "MATCH_TYPE_PII_SSN" ->
            [fn |-> "pii::ssn", arg |-> FALSE]
      [] type_ = "MATCH_TYPE_PII_EMAIL" ->
            [fn |-> "pii::email", arg |-> FALSE]
      [] type_ = "MATCH_TYPE_PII_PHONE" ->
            [fn |-> "pii::email", arg |-> FALSE]
      [] type_ = "MATCH_TYPE_PII_DRIVER_LICENSE" ->
            [fn |-> "pii::drivers_license", arg |-> FALSE]
      [] type_ = "MATCH_TYPE_PII_PASSPORT_ID" ->
            [fn |-> "pii::passport_id", arg |-> FALSE]
      [] type_ = "MATCH_TYPE_PII_VIN_NUMBER" ->
            [fn |-> "pii::vin_number", arg |-> FALSE]
      [] type_ = "MATCH_TYPE_PII_SERIAL_NUMBER" ->
            [fn |-> "pii::serial_number", arg |-> FALSE]
      [] type_ = "MATCH_TYPE_PII_LOGIN" ->
            [fn |-> "pii::login", arg |-> FALSE]
      [] type_ = "MATCH_TYPE_PII_TAXPAYER_ID" ->
            [fn |-> "pii::taxpayer_id", arg |-> FALSE]
      [] type_ = "MATCH_TYPE_PII_ADDRESS" ->
            [fn |-> "pii::address", arg |-> FALSE]
      [] type_ = "MATCH_TYPE_PII_SIGNATURE" ->
            [fn |-> "pii::signature", arg |-> FALSE]
      [] type_ = "MATCH_TYPE_PII_GEOLOCATION" ->
            [fn |-> "pii::geolocation", arg |-> FALSE]
      [] type_ = "MATCH_TYPE_PII_EDUCATION" ->
            [fn |-> "pii::education", arg |-> FALSE]
      [] type_ = "MATCH_TYPE_PII_FINANCIAL" ->
            [fn |-> "pii::financial", arg |-> FALSE]
      [] type_ = "MATCH_TYPE_PII_HEALTH" ->
            [fn |-> "pii::health", arg |-> FALSE]
      [] type_ = "MATCH_TYPE_UNKNOWN" -> [fn |-> "unknown", arg |-> FALSE]

\* The dispatch with PII_EMAIL sent to the phone validator.
match_arm_pii_slip(type_) ==
    CASE type_ \in NumericTypes -> [fn |-> "numeric::common", arg |-> FALSE]
      [] type_ = "MATCH_TYPE_STRING_EQUAL" ->
            [fn |-> "core::string_equal_to", arg |-> FALSE]
      [] type_ = "MATCH_TYPE_STRING_CONTAINS_ANY" ->
            [fn |-> "core::string_contains_any", arg |-> FALSE]
      [] type_ = "MATCH_TYPE_STRING_CONTAINS_ALL" ->
            [fn |-> "core::string_contains_all", arg |-> FALSE]
      [] type_ = "MATCH_TYPE_IPV4_ADDRESS" ->
            [fn |-> "core::ip_address", arg |-> FALSE]
      [] type_ = "MATCH_TYPE_IPV6_ADDRESS" ->
            [fn |-> "core::ip_address", arg |-> FALSE]
      [] type_ = "MATCH_TYPE_REGEX" ->
            [fn |-> "core::regex", arg |-> FALSE]
      [] type_ = "MATCH_TYPE_TIMESTAMP_RFC3339" ->
            [fn |-> "core::timestamp_rfc3339", arg |-> FALSE]
      [] type_ = "MATCH_TYPE_TIMESTAMP_UNIX_NANO" ->
            [fn |-> "core::timestamp_unix_nano", arg |-> FALSE]
      [] type_ = "MATCH_TYPE_TIMESTAMP_UNIX" ->
            [fn |-> "core::timestamp_unix", arg |-> FALSE]
      [] type_ = "MATCH_TYPE_BOOLEAN_FALSE" ->
            [fn |-> "core::boolean", arg |-> FALSE]
      [] type_ = "MATCH_TYPE_BOOLEAN_TRUE" ->
            [fn |-> "core::boolean", arg |-> TRUE]
      [] type_ = "MATCH_TYPE_IS_EMPTY" ->
            [fn |-> "core::is_empty", arg |-> FALSE]
      [] type_ = "MATCH_TYPE_HAS_FIELD" ->
            [fn |-> "core::has_field", arg |-> FALSE]
      [] type_ = "MATCH_TYPE_IS_TYPE" ->
            [fn |-> "core::is_type", arg |-> FALSE]
      [] type_ = "MATCH_TYPE_UUID" ->
            [fn |-> "core::uuid", arg |-> FALSE]
      [] type_ = "MATCH_TYPE_MAC_ADDRESS" ->
            [fn |-> "core::mac_address", arg |-> FALSE]
      [] type_ = "MATCH_TYPE_PII_ANY" ->
            [fn |-> "pii::all", arg |-> FALSE]
      [] type_ = "MATCH_TYPE_PII_CREDIT_CARD" ->
            [fn |-> "pii::credit_card", arg |-> FALSE]
      [] type_ = "MATCH_TYPE_PII_SSN" ->
            [fn |-> "pii::ssn", arg |-> FALSE]
      [] type_ = "MATCH_TYPE_PII_EMAIL" ->
            [fn |-> "pii::phone", arg |-> FALSE]
      [] type_ = "MATCH_TYPE_PII_PHONE" ->
            [fn |-> "pii::phone", arg |-> FALSE]
      [] type_ = "MATCH_TYPE_PII_DRIVER_LICENSE" ->
            [fn |-> "pii::drivers_license", arg |-> FALSE]
      [] type_ = "MATCH_TYPE_PII_PASSPORT_ID" ->
            [fn |-> "pii::passport_id", arg |-> FALSE]
      [] type_ = "MATCH_TYPE_PII_VIN_NUMBER" ->
            [fn |-> "pii::vin_number", arg |-> FALSE]
      [] type_ = "MATCH_TYPE_PII_SERIAL_NUMBER" ->
            [fn |-> "pii::serial_number", arg |-> FALSE]
      [] type_ = "MATCH_TYPE_PII_LOGIN" ->
            [fn |-> "pii::login", arg |-> FALSE]
      [] type_ = "MATCH_TYPE_PII_TAXPAYER_ID" ->
            [fn |-> "pii::taxpayer_id", arg |-> FALSE]
      [] type_ = "MATCH_TYPE_PII_ADDRESS" ->
            [fn |-> "pii::address", arg |-> FALSE]
      [] type_ = "MATCH_TYPE_PII_SIGNATURE" ->
            [fn |-> "pii::signature", arg |-> FALSE]
      [] type_ = "MATCH_TYPE_PII_GEOLOCATION" ->
            [fn |-> "pii::geolocation", arg |-> FALSE]
      [] type_ = "MATCH_TYPE_PII_EDUCATION" ->
            [fn |-> "pii::education", arg |-> FALSE]
      [] type_ = "MATCH_TYPE_PII_FINANCIAL" ->
            [fn |-> "pii::financial", arg |-> FALSE]
      [] type_ = "MATCH_TYPE_PII_HEALTH" ->
            [fn |-> "pii::health", arg |-> FALSE]
      [] type_ = "MATCH_TYPE_UNKNOWN" -> [fn |-> "unknown", arg |-> FALSE]

\* The arms of the match over request.type_: the validator each match type
\* is dispatched to (core::boolean takes the expected literal as argument).
match_arm(type_) ==
    CASE type_ \in NumericTypes -> [fn |-> "numeric::common", arg |-> FALSE]
      [] type_ = "MATCH_TYPE_STRING_EQUAL" ->
            [fn |-> "core::string_equal_to", arg |-> FALSE]
      [] type_ = "MATCH_TYPE_STRING_CONTAINS_ANY" ->
            [fn |-> "core::string_contains_any", arg |-> FALSE]
      [] type_ = "MATCH_TYPE_STRING_CONTAINS_ALL" ->
            [fn |-> "core::string_contains_all", arg |-> FALSE]
      [] type_ = "MATCH_TYPE_IPV4_ADDRESS" ->
            [fn |-> "core::ip_address", arg |-> FALSE]
      [] type_ = "MATCH_TYPE_IPV6_ADDRESS" ->
            [fn |-> "core::ip_address", arg |-> FALSE]
      [] type_ = "MATCH_TYPE_REGEX" ->
            [fn |-> "core::regex", arg |-> FALSE]
      [] type_ = "MATCH_TYPE_TIMESTAMP_RFC3339" ->
            [fn |-> "core::timestamp_rfc3339", arg |-> FALSE]
      [] type_ = "MATCH_TYPE_TIMESTAMP_UNIX_NANO" ->
            [fn |-> "core::timestamp_unix_nano", arg |-> FALSE]
      [] type_ = "MATCH_TYPE_TIMESTAMP_UNIX" ->
            [fn |-> "core::timestamp_unix", arg |-> FALSE]
      [] type_ = "MATCH_TYPE_BOOLEAN_FALSE" ->
            [fn |-> "core::boolean", arg |-> FALSE]
      [] type_ = "MATCH_TYPE_BOOLEAN_TRUE" ->
            [fn |-> "core::boolean", arg |-> TRUE]
      [] type_ = "MATCH_TYPE_IS_EMPTY" ->
            [fn |-> "core::is_empty", arg |-> FALSE]
      [] type_ = "MATCH_TYPE_HAS_FIELD" ->
            [fn |-> "core::has_field", arg |-> FALSE]
      [] type_ = "MATCH_TYPE_IS_TYPE" ->
            [fn |-> "core::is_type", arg |-> FALSE]
      [] type_ = "MATCH_TYPE_UUID" ->
            [fn |-> "core::uuid", arg |-> FALSE]
      [] type_ = "MATCH_TYPE_MAC_ADDRESS" ->
            [fn |-> "core::mac_address", arg |-> FALSE]
      [] type_ = "MATCH_TYPE_PII_ANY" ->
            [fn |-> "pii::all", arg |-> FALSE]
      [] type_ = "MATCH_TYPE_PII_CREDIT_CARD" ->
            [fn |-> "pii::credit_card", arg |-> FALSE]
      [] type_ = "MATCH_TYPE_PII_SSN" ->
            [fn |-> "pii::ssn", arg |-> FALSE]
      [] type_ = "MATCH_TYPE_PII_EMAIL" ->
            [fn |-> "pii::email", arg |-> FALSE]
      [] type_ = "MATCH_TYPE_PII_PHONE" ->
            [fn |-> "pii::phone", arg |-> FALSE]
      [] type_ = "MATCH_TYPE_PII_DRIVER_LICENSE" ->
            [fn |-> "pii::drivers_license", arg |-> FALSE]
      [] type_ = "MATCH_TYPE_PII_PASSPORT_ID" ->
            [fn |-> "pii::passport_id", arg |-> FALSE]
      [] type_ = "MATCH_TYPE_PII_VIN_NUMBER" ->
            [fn |-> "pii::vin_number", arg |-> FALSE]
      [] type_ = "MATCH_TYPE_PII_SERIAL_NUMBER" ->
            [fn |-> "pii::serial_number", arg |-> FALSE]
      [] type_ = "MATCH_TYPE_PII_LOGIN" ->
            [fn |-> "pii::login", arg |-> FALSE]
      [] type_ = "MATCH_TYPE_PII_TAXPAYER_ID" ->
            [fn |-> "pii::taxpayer_id", arg |-> FALSE]
      [] type_ = "MATCH_TYPE_PII_ADDRESS" ->
            [fn |-> "pii::address", arg |-> FALSE]
      [] type_ = "MATCH_TYPE_PII_SIGNATURE" ->
            [fn |-> "pii::signature", arg |-> FALSE]
      [] type_ = "MATCH_TYPE_PII_GEOLOCATION" ->
            [fn |-> "pii::geolocation", arg |-> FALSE]
      [] type_ = "MATCH_TYPE_PII_EDUCATION" ->
            [fn |-> "pii::education", arg |-> FALSE]
      [] type_ = "MATCH_TYPE_PII_FINANCIAL" ->
            [fn |-> "pii::financial", arg |-> FALSE]
      [] type_ = "MATCH_TYPE_PII_HEALTH" ->
            [fn |-> "pii::health", arg |-> FALSE]
      [] type_ = "MATCH_TYPE_UNKNOWN" -> [fn |-> "unknown", arg |-> FALSE]

\* The value of the match expression with the validator's boolean negated
\* once more by the dispatcher.
dispatch_return_negating(req, r) ==
    IF r.ok /\ req.negate THEN Ok(~r.val) ELSE r

\* The value of the match expression is the value of matches: the
\* validator's result, as it is.
dispatch_return(req, r) == r

\* Detective::matches as a function of the request.
matches(req) ==
    LET checked == validate_match_request(req)
        ev      == enum_value(req.type_)
    IN  IF ~checked.ok THEN Propagate(checked)
        ELSE IF ~ev.ok THEN Err("MissingMatchType", "")
        ELSE IF ev.value = "MATCH_TYPE_UNKNOWN"
        THEN Err("Error", "match type cannot be unknown")
        ELSE dispatch_return(req, call_validator(match_arm(ev.value), req))

--------------------------------------------------------------------------
(* Requests *)

Types == MatchType \cup {UnrecognizedType}

Paths == DocumentPaths \cup {"", "does_not_exist"}

\* The operand lists requests carry.
Operands ==
    { <<>>,
      << <<"1","0","0">> >>,
      << <<"1","0","0",".","1">> >>,
      << <<"1","0","0",".","1","0">> >>,
      << <<"1">> >>,
      << <<"1","0","0","0">> >>,
      << <<"9","9">> >>,
      << <<"n","o","t">> >>,
      << <<"h","e","l","l","o">> >>,
      << <<"e","l","l">>, <<"z","z">> >>,
      << <<"s","t","r","i","n","g">> >>,
      << <<"1">>, <<"2">> >> }

Requests ==
    [type_ : Types, path : Paths, data : DataBuffers, values : Operands,
     negate : BOOLEAN]

Request(type_, path, data, values, negate) ==
    [type_ |-> type_, path |-> path, data |-> data, values |-> values,
     negate |-> negate]

\* The requests of the concurrent specification.
ConcurrentRequests ==
    { Request("MATCH_TYPE_NUMERIC_EQUAL_TO", "number_int", "document",
              << <<"1","0","0">> >>, FALSE),
      Request("MATCH_TYPE_NUMERIC_EQUAL_TO", "number_int", "document",
              << <<"1","0","0">> >>, TRUE),
      Request("MATCH_TYPE_NUMERIC_LESS_EQUAL", "number_int", "document",
              << <<"9","9">> >>, FALSE),
      Request("MATCH_TYPE_NUMERIC_EQUAL_TO", "does_not_exist", "document",
              << <<"1","0","0","0">> >>, FALSE),
      Request("MATCH_TYPE_IS_EMPTY", "does_not_exist", "document", <<>>, FALSE),
      Request("MATCH_TYPE_HAS_FIELD", "null", "document", <<>>, FALSE),
      Request("MATCH_TYPE_UNKNOWN", "number_int", "document", <<>>, FALSE),
      Request(UnrecognizedType, "number_int", "document", <<>>, FALSE),
      Request("MATCH_TYPE_STRING_EQUAL", "string", "empty",
              << <<"h","e","l","l","o">> >>, FALSE) }

--------------------------------------------------------------------------
(* The calls of matches, step by step *)

Calls == DOMAIN pc

\* The request every call reads is the one of the first call (a request
\* slot shared by the calls).
RequestOfShared(c) == request[CHOOSE d \in DOMAIN request : \A e \in DOMAIN request : d <= e]

\* The request call c reads: the &MatchRequest it was handed.
RequestOf(c) == request[c]

\* validate_match_request(request)?
Validate(c) ==
    /\ pc[c] = "call"
    /\ LET checked == validate_match_request(RequestOf(c))
       IN  IF checked.ok
           THEN /\ pc' = [pc EXCEPT ![c] = "dispatch"]
                /\ UNCHANGED result
           ELSE /\ pc' = [pc EXCEPT ![c] = "done"]
                /\ result' = [result EXCEPT ![c] = Propagate(checked)]
    /\ UNCHANGED <<request, arm, invoked>>

\* match request.type_.enum_value().map_err(MissingMatchType)? { ... }:
\* the arm is selected and its validator is entered.
Dispatch(c) ==
    /\ pc[c] = "dispatch"
    /\ LET ev == enum_value(RequestOf(c).type_)
       IN  CASE ~ev.ok ->
                   /\ arm' = [arm EXCEPT ![c] = "map_err"]
                   /\ result' = [result EXCEPT ![c] = Err("MissingMatchType", "")]
                   /\ pc' = [pc EXCEPT ![c] = "done"]
                   /\ UNCHANGED invoked
             [] ev.ok /\ ev.value = "MATCH_TYPE_UNKNOWN" ->
                   /\ arm' = [arm EXCEPT ![c] = "MATCH_TYPE_UNKNOWN"]
                   /\ result' = [result EXCEPT ![c] =
                                    Err("Error", "match type cannot be unknown")]
                   /\ pc' = [pc EXCEPT ![c] = "done"]
                   /\ UNCHANGED invoked
             [] OTHER ->
                   /\ arm' = [arm EXCEPT ![c] = ev.value]
                   /\ invoked' = [invoked EXCEPT ![c] = Append(@, match_arm(ev.value))]
                   /\ pc' = [pc EXCEPT ![c] = "validator"]
                   /\ UNCHANGED result
    /\ UNCHANGED request

\* The validator runs and matches returns the value of the arm.
Return(c) ==
    /\ pc[c] = "validator"
    /\ result' = [result EXCEPT ![c] =
           dispatch_return(RequestOf(c),
               call_validator(invoked[c][Len(invoked[c])], RequestOf(c)))]
    /\ pc' = [pc EXCEPT ![c] = "done"]
    /\ UNCHANGED <<request, arm, invoked>>

InitWith(calls, requests) ==
    /\ request \in [calls -> requests]
    /\ pc = [c \in calls |-> "call"]
    /\ arm = [c \in calls |-> "none"]
    /\ invoked = [c \in calls |-> <<>>]
    /\ result = [c \in calls |-> NoResult]

\* One call, any request.
Init == InitWith({1}, Requests)

\* NumCalls concurrent calls on distinct or identical requests.
InitConcurrent == InitWith(1..NumCalls, ConcurrentRequests)

Next ==
    \/ \E c \in Calls : Validate(c)
    \/ \E c \in Calls : Dispatch(c)
    \/ \E c \in Calls : Return(c)

Spec == Init /\ [][Next]_vars

SpecConcurrent == InitConcurrent /\ [][Next]_vars

--------------------------------------------------------------------------
(* Properties *)

Done(c) == pc[c] = "done"

\* The four conditions under which a request is rejected before dispatch.
InvalidRequest(req) ==
    \/ req.type_ \notin MatchType
    \/ req.type_ = "MATCH_TYPE_UNKNOWN"
    \/ req.path = ""
    \/ req.data = "empty"

\* The path resolves to no node of the (well-formed) data.
PathUnresolved(req) == req.data = "document" /\ req.path \notin DocumentPaths

\* C1: matches returns an error and invokes no validator whenever the match
\* type does not decode, is MATCH_TYPE_UNKNOWN, or path or data is empty;
\* every other request passes validation and goes on to the dispatch,
\* whatever its values and negate are.
C1_ValidationGate ==
    \A c \in Calls :
        pc[c] # "call" =>
            IF InvalidRequest(request[c])
            THEN /\ Done(c)
                 /\ ~result[c].ok
                 /\ invoked[c] = <<>>
                 /\ arm[c] = "none"
            ELSE pc[c] \in {"dispatch", "validator"} \/ arm[c] # "none"

C1_Witness ==
    \E c \in Calls :
        /\ Done(c)
        /\ request[c].type_ = "MATCH_TYPE_NUMERIC_EQUAL_TO"
        /\ request[c].path = "number_int"
        /\ request[c].data = "empty"
        /\ request[c].negate
        /\ result[c] = Err("Error", "data cannot be empty")
        /\ invoked[c] = <<>>

\* C2 as stated: for every match type, a request whose path resolves to no
\* node yields an error, never a boolean, whatever negate is.
C2_NotFoundIsErrorForEveryType ==
    \A c \in Calls :
        (Done(c) /\ ~InvalidRequest(request[c]) /\ PathUnresolved(request[c]))
            => ~result[c].ok

\* C2 amended: for every match type except is-empty and has-field, a request
\* whose path resolves to no node yields an error, never a boolean, whatever
\* negate is.
C2_NotFoundIsError ==
    \A c \in Calls :
        ( /\ Done(c)
          /\ ~InvalidRequest(request[c])
          /\ PathUnresolved(request[c])
          /\ request[c].type_ \notin {"MATCH_TYPE_IS_EMPTY", "MATCH_TYPE_HAS_FIELD"} )
            => ~result[c].ok

C2_Witness ==
    \E c \in Calls :
        /\ Done(c)
        /\ request[c].type_ = "MATCH_TYPE_IS_TYPE"
        /\ request[c].path = "does_not_exist"
        /\ request[c].data = "document"
        /\ request[c].negate
        /\ Len(invoked[c]) = 1
        /\ result[c] = Err("Error", "path not found in data")

\* C3: of two requests that differ only in negate, one yields Ok(b) exactly
\* when the other yields Ok(~b), and one yields an error exactly when the
\* other does.
C3_NegateInverts ==
    \A c \in Calls :
        Done(c) =>
            LET other == matches([request[c] EXCEPT !.negate = ~@])
            IN  IF result[c].ok
                THEN other.ok /\ other.val = ~result[c].val
                ELSE ~other.ok

C3_Witness ==
    \E c \in Calls :
        /\ Done(c)
        /\ request[c].type_ = "MATCH_TYPE_NUMERIC_LESS_EQUAL"
        /\ request[c].path = "number_int"
        /\ request[c].data = "document"
        /\ request[c].values = << <<"9","9">> >>
        /\ request[c].negate
        /\ result[c] = Ok(TRUE)

\* The numeric fields of the document and the numeric operands, in
\* hundredths.
FieldHundredths(path) ==
    CASE path = "number_int"    -> 10000
      [] path = "number_float"  -> 10010
      [] path = "number_padded" -> 10010

LiteralHundredths(s) ==
    CASE s = <<"1","0","0">>             -> 10000
      [] s = <<"1","0","0",".","1">>     -> 10010
      [] s = <<"1","0","0",".","1","0">> -> 10010
      [] s = <<"1">>                     -> 100
      [] s = <<"1","0","0","0">>         -> 100000
      [] s = <<"9","9">>                 -> 9900

NumericLiterals ==
    { <<"1","0","0">>, <<"1","0","0",".","1">>, <<"1","0","0",".","1","0">>,
      <<"1">>, <<"1","0","0","0">>, <<"9","9">> }

ExpectedOrder(type_, f, v) ==
    CASE type_ = "MATCH_TYPE_NUMERIC_EQUAL_TO"      -> f = v
      [] type_ = "MATCH_TYPE_NUMERIC_GREATER_THAN"  -> f > v
      [] type_ = "MATCH_TYPE_NUMERIC_GREATER_EQUAL" -> f >= v
      [] type_ = "MATCH_TYPE_NUMERIC_LESS_THAN"     -> f < v
      [] type_ = "MATCH_TYPE_NUMERIC_LESS_EQUAL"    -> f <= v

\* C4: for the five numeric match types with negate = false, a numeric field
\* f and a single operand: matches returns Ok(f op v) when the operand parses
\* as the number v, and an error when it does not parse.
C4_NumericComparison ==
    \A c \in Calls :
        ( /\ Done(c)
          /\ request[c].type_ \in NumericTypes
          /\ ~request[c].negate
          /\ request[c].data = "document"
          /\ request[c].path \in {"number_int", "number_float", "number_padded"}
          /\ Len(request[c].values) = 1 )
            => IF request[c].values[1] \in NumericLiterals
               THEN result[c] =
                        Ok(ExpectedOrder(request[c].type_,
                                         FieldHundredths(request[c].path),
                                         LiteralHundredths(request[c].values[1])))
               ELSE ~result[c].ok

C4_Witness ==
    \E c \in Calls :
        /\ Done(c)
        /\ request[c].type_ = "MATCH_TYPE_NUMERIC_GREATER_THAN"
        /\ request[c].path = "number_float"
        /\ request[c].data = "document"
        /\ request[c].values = << <<"1","0","0","0">> >>
        /\ ~request[c].negate
        /\ result[c] = Ok(FALSE)

\* C5: has-field with negate = false returns Ok(TRUE) when the path resolves
\* to any node, null included, and Ok(FALSE), not an error, when the path
\* does not resolve.
C5_HasField ==
    \A c \in Calls :
        ( /\ Done(c)
          /\ request[c].type_ = "MATCH_TYPE_HAS_FIELD"
          /\ ~request[c].negate
          /\ request[c].data = "document"
          /\ request[c].path # "" )
            => result[c] = Ok(request[c].path \in DocumentPaths)

C5_Witness ==
    \E c \in Calls :
        /\ Done(c)
        /\ request[c].type_ = "MATCH_TYPE_HAS_FIELD"
        /\ ~request[c].negate
        /\ request[c].data = "document"
        /\ request[c].path = "null"
        /\ result[c] = Ok(TRUE)

\* C6: is-empty with negate = false returns Ok(TRUE) for an absent field,
\* null, the empty string, the empty array and the empty object, and
\* Ok(FALSE) for a non-empty string, array or object.
C6_IsEmpty ==
    \A c \in Calls :
        ( /\ Done(c)
          /\ request[c].type_ = "MATCH_TYPE_IS_EMPTY"
          /\ ~request[c].negate
          /\ request[c].data = "document" )
            => /\ request[c].path \in
                     {"does_not_exist", "null", "empty_string", "empty_array",
                      "empty_object"} => result[c] = Ok(TRUE)
               /\ request[c].path \in {"string", "ipv4", "array", "object"}
                     => result[c] = Ok(FALSE)

C6_Witness ==
    \E c \in Calls :
        /\ Done(c)
        /\ request[c].type_ = "MATCH_TYPE_IS_EMPTY"
        /\ ~request[c].negate
        /\ request[c].data = "document"
        /\ request[c].path = "does_not_exist"
        /\ result[c] = Ok(TRUE)

\* The validator sections 4.3 - 4.5 assign to each match type.
ExpectedValidator(type_) ==
    CASE type_ \in NumericTypes -> "numeric::common"
      [] type_ = "MATCH_TYPE_STRING_EQUAL" -> "core::string_equal_to"
      [] type_ = "MATCH_TYPE_STRING_CONTAINS_ANY" -> "core::string_contains_any"
      [] type_ = "MATCH_TYPE_STRING_CONTAINS_ALL" -> "core::string_contains_all"
      [] type_ = "MATCH_TYPE_IPV4_ADDRESS" -> "core::ip_address"
      [] type_ = "MATCH_TYPE_IPV6_ADDRESS" -> "core::ip_address"
      [] type_ = "MATCH_TYPE_REGEX" -> "core::regex"
      [] type_ = "MATCH_TYPE_TIMESTAMP_RFC3339" -> "core::timestamp_rfc3339"
      [] type_ = "MATCH_TYPE_TIMESTAMP_UNIX_NANO" -> "core::timestamp_unix_nano"
      [] type_ = "MATCH_TYPE_TIMESTAMP_UNIX" -> "core::timestamp_unix"
      [] type_ = "MATCH_TYPE_BOOLEAN_FALSE" -> "core::boolean"
      [] type_ = "MATCH_TYPE_BOOLEAN_TRUE" -> "core::boolean"
      [] type_ = "MATCH_TYPE_IS_EMPTY" -> "core::is_empty"
      [] type_ = "MATCH_TYPE_HAS_FIELD" -> "core::has_field"
      [] type_ = "MATCH_TYPE_IS_TYPE" -> "core::is_type"
      [] type_ = "MATCH_TYPE_UUID" -> "core::uuid"
      [] type_ = "MATCH_TYPE_MAC_ADDRESS" -> "core::mac_address"
      [] type_ = "MATCH_TYPE_PII_ANY" -> "pii::all"
      [] type_ = "MATCH_TYPE_PII_CREDIT_CARD" -> "pii::credit_card"
      [] type_ = "MATCH_TYPE_PII_SSN" -> "pii::ssn"
      [] type_ = "MATCH_TYPE_PII_EMAIL" -> "pii::email"
      [] type_ = "MATCH_TYPE_PII_PHONE" -> "pii::phone"
      [] type_ = "MATCH_TYPE_PII_DRIVER_LICENSE" -> "pii::drivers_license"
      [] type_ = "MATCH_TYPE_PII_PASSPORT_ID" -> "pii::passport_id"
      [] type_ = "MATCH_TYPE_PII_VIN_NUMBER" -> "pii::vin_number"
      [] type_ = "MATCH_TYPE_PII_SERIAL_NUMBER" -> "pii::serial_number"
      [] type_ = "MATCH_TYPE_PII_LOGIN" -> "pii::login"
      [] type_ = "MATCH_TYPE_PII_TAXPAYER_ID" -> "pii::taxpayer_id"
      [] type_ = "MATCH_TYPE_PII_ADDRESS" -> "pii::address"
      [] type_ = "MATCH_TYPE_PII_SIGNATURE" -> "pii::signature"
      [] type_ = "MATCH_TYPE_PII_GEOLOCATION" -> "pii::geolocation"
      [] type_ = "MATCH_TYPE_PII_EDUCATION" -> "pii::education"
      [] type_ = "MATCH_TYPE_PII_FINANCIAL" -> "pii::financial"
      [] type_ = "MATCH_TYPE_PII_HEALTH" -> "pii::health"

\* C7: for a request that passes validation, matches invokes exactly one
\* validator, the one assigned to the request's match type, and returns that
\* validator's result unmodified; every match type but the unknown sentinel
\* has a validator.
C7_DispatchExactlyOne ==
    /\ \A t \in MatchType \ {"MATCH_TYPE_UNKNOWN"} : match_arm(t).fn # "unknown"
    /\ \A c \in Calls :
        (Done(c) /\ ~InvalidRequest(request[c])) =>
            /\ Len(invoked[c]) = 1
            /\ invoked[c][1].fn = ExpectedValidator(request[c].type_)
            /\ arm[c] = request[c].type_
            /\ result[c] = call_validator(invoked[c][1], request[c])

C7_Witness ==
    \E c \in Calls :
        /\ Done(c)
        /\ request[c].type_ = "MATCH_TYPE_PII_EMAIL"
        /\ request[c].path = "string"
        /\ request[c].data = "document"
        /\ request[c].negate
        /\ invoked[c] = << [fn |-> "pii::email", arg |-> FALSE] >>
        /\ result[c] = Ok(TRUE)

\* C8: a match type that fails to decode is rejected with the
\* MissingMatchType error kind, the unknown sentinel with another kind.
C8_DistinctErrorKinds ==
    \A c \in Calls :
        Done(c) =>
            /\ request[c].type_ \notin MatchType
                  => (~result[c].ok /\ result[c].kind = "MissingMatchType")
            /\ request[c].type_ = "MATCH_TYPE_UNKNOWN"
                  => (~result[c].ok /\ result[c].kind # "MissingMatchType")

C10_DispatchNeverSeesUnknown ==
    \A c \in Calls :
        /\ pc[c] \in {"dispatch", "validator"} =>
              (enum_value(request[c].type_).ok
                  /\ request[c].type_ # "MATCH_TYPE_UNKNOWN")
        /\ arm[c] \notin {"map_err", "MATCH_TYPE_UNKNOWN"}
        /\ result[c].kind # "MissingMatchType"
        /\ result[c].msg # "match type cannot be unknown"
        /\ (Done(c) /\ ( \/ ~enum_value(request[c].type_).ok
                         \/ request[c].type_ = "MATCH_TYPE_UNKNOWN" ))
              => (arm[c] = "none" /\ result[c].kind = "MatchError")

C10_Witness ==
    \E c \in Calls :
        /\ Done(c)
        /\ request[c].type_ = "MATCH_TYPE_UNKNOWN"
        /\ request[c].path = "number_int"
        /\ request[c].data = "document"
        /\ arm[c] = "none"
        /\ result[c] = Err("MatchError", "unknown match type")

====
